---- MODULE Spec2Model ----
(***************************************************************************)
(* Model of starter.cpp: the chess board (BoardManager), the per-kind move *)
(* generators (getPotentialMoves of King, Knight, Pawn, Rook, Bishop and   *)
(* Queen) and the selection loop of main().                                *)
(*                                                                         *)
(* A Position is a pair <<x, y>>; the grid is indexed board[x][y] as in    *)
(* the source (x is the file, y the rank).  A piece is an object with an   *)
(* identity: the grid holds pointers (ids), 0 is nullptr.                  *)
(***************************************************************************)
EXTENDS Integers, Sequences, FiniteSets

VARIABLES
    board,          \* BoardManager::board, board[x][y] is a piece id or NoPiece
    pieces,         \* the heap of IGamePiece objects, by id
    cursor,         \* main(): Position cursor
    selectedPiece,  \* main(): IGamePiece *selectedPiece
    moves,          \* main(): std::vector<Position> moves
    status,         \* main(): std::string status, as printed after the render
    moveCount,      \* history: successful movePiece calls per piece
    nKeys           \* history: keys read by the loop of main() so far

vars == <<board, pieces, cursor, selectedPiece, moves, status, moveCount, nKeys>>

\* Bound on the number of keys read along one run.
MaxKeys == 16

\* Bound on the distance (in king steps) between the two pieces of the
\* two-piece positions of PosSpec.
MaxDist == 6

\* The board is 8 by 8: every bounds test in the source is 0 <= v < 8.
BoardSize == 8

Coord == 0 .. (BoardSize - 1)
Squares == Coord \X Coord

NoPiece == 0
PieceIds == 1 .. 32

\* "x >= 0 && x < 8 && y >= 0 && y < 8"
InBounds(x, y) == x >= 0 /\ x < BoardSize /\ y >= 0 /\ y < BoardSize

\* BoardManager::getAtPosition(row, col) { return board[row][col]; }
getAtPosition(b, x, y) == b[x][y]

Range(s) == { s[i] : i \in 1 .. Len(s) }

----------------------------------------------------------------------------
(* Move generators *)

kingMoves == << <<1, 0>>, <<-1, 0>>, <<0, 1>>, <<0, -1>>,
                <<1, 1>>, <<1, -1>>, <<-1, 1>>, <<-1, -1>> >>

\* knightMoves with one sign dropped: {2, 1} twice, {2, -1} never.
knightMovesSignSlip == << <<2, 1>>, <<2, 1>>, <<-2, 1>>, <<-2, -1>>,
                          <<1, 2>>, <<1, -2>>, <<-1, 2>>, <<-1, -2>> >>

knightMoves == << <<2, 1>>, <<2, -1>>, <<-2, 1>>, <<-2, -1>>,
                  <<1, 2>>, <<1, -2>>, <<-1, 2>>, <<-1, -2>> >>

rookDirections == << <<1, 0>>, <<-1, 0>>, <<0, 1>>, <<0, -1>> >>

bishopDirections == << <<1, 1>>, <<-1, 1>>, <<1, -1>>, <<-1, -1>> >>

queenDirections == << <<1, 0>>, <<-1, 0>>, <<0, 1>>, <<0, -1>>,
                      <<1, 1>>, <<-1, 1>>, <<1, -1>>, <<-1, -1>> >>

\* The loop body shared by King and Knight: keep table[i] applied to the
\* cached position when it is on the board and not an allied piece.
RECURSIVE StepMoves(_, _, _, _, _)
StepMoves(table, i, p, b, ps) ==
    IF i > Len(table) THEN << >>
    ELSE LET x == ps[p].position[1] + table[i][1]
             y == ps[p].position[2] + table[i][2]
             rest == StepMoves(table, i + 1, p, b, ps)
         IN  IF InBounds(x, y)
             THEN LET targetPiece == getAtPosition(b, x, y)
                  IN  IF targetPiece # NoPiece
                         /\ ps[targetPiece].isWhite = ps[p].isWhite
                      THEN rest
                      ELSE << <<x, y>> >> \o rest
             ELSE rest

KingMoves(p, b, ps) == StepMoves(kingMoves, 1, p, b, ps)

KnightMoves(p, b, ps) == StepMoves(knightMoves, 1, p, b, ps)

\* Walk without the "break" after a capture: the walk goes on behind an
\* enemy piece.
RECURSIVE WalkPastCapture(_, _, _, _, _, _)
WalkPastCapture(x, y, d, p, b, ps) ==
    LET nx == x + d[1]
        ny == y + d[2]
    IN  IF ~InBounds(nx, ny) THEN << >>
        ELSE LET targetPiece == getAtPosition(b, nx, ny)
             IN  IF targetPiece # NoPiece
                    /\ ps[targetPiece].isWhite = ps[p].isWhite
                 THEN << >>
                 ELSE << <<nx, ny>> >> \o WalkPastCapture(nx, ny, d, p, b, ps)

\* The "while (true)" walk of Rook, Bishop and Queen from (x, y) along d.
RECURSIVE Walk(_, _, _, _, _, _)
Walk(x, y, d, p, b, ps) ==
    LET nx == x + d[1]
        ny == y + d[2]
    IN  IF ~InBounds(nx, ny) THEN << >>
        ELSE LET targetPiece == getAtPosition(b, nx, ny)
             IN  IF targetPiece # NoPiece
                    /\ ps[targetPiece].isWhite = ps[p].isWhite
                 THEN << >>
                 ELSE IF targetPiece # NoPiece
                         /\ ps[targetPiece].isWhite # ps[p].isWhite
                      THEN << <<nx, ny>> >>
                      ELSE << <<nx, ny>> >> \o Walk(nx, ny, d, p, b, ps)

RECURSIVE SlideMoves(_, _, _, _, _)
SlideMoves(directions, i, p, b, ps) ==
    IF i > Len(directions) THEN << >>
    ELSE Walk(ps[p].position[1], ps[p].position[2], directions[i], p, b, ps)
         \o SlideMoves(directions, i + 1, p, b, ps)

RookMoves(p, b, ps) == SlideMoves(rookDirections, 1, p, b, ps)

BishopMoves(p, b, ps) == SlideMoves(bishopDirections, 1, p, b, ps)

QueenMoves(p, b, ps) == SlideMoves(queenDirections, 1, p, b, ps)

\* "int direction = isWhite ? -1 : 1"
PawnDirection(isWhite) == IF isWhite THEN -1 ELSE 1

PawnForward(p, b, ps) ==
    LET forwardX == ps[p].position[1]
        forwardY == ps[p].position[2] + PawnDirection(ps[p].isWhite)
    IN  IF forwardY >= 0 /\ forwardY < BoardSize
           /\ getAtPosition(b, forwardX, forwardY) = NoPiece
        THEN << <<forwardX, forwardY>> >>
        ELSE << >>

PawnDouble(p, b, ps) ==
    LET forwardX == ps[p].position[1]
        doubleForwardY == ps[p].position[2] + 2 * PawnDirection(ps[p].isWhite)
    IN  IF ~ps[p].hasMoved
           /\ doubleForwardY >= 0 /\ doubleForwardY < BoardSize
           /\ getAtPosition(b, forwardX, doubleForwardY) = NoPiece
        THEN << <<forwardX, doubleForwardY>> >>
        ELSE << >>

\* PawnCapture with "==" for "!=": the pawn captures its own side.
PawnCaptureOwnSide(captureX, p, b, ps) ==
    LET captureY == ps[p].position[2] + PawnDirection(ps[p].isWhite)
    IN  IF InBounds(captureX, captureY)
        THEN LET targetPiece == getAtPosition(b, captureX, captureY)
             IN  IF targetPiece # NoPiece
                    /\ ps[targetPiece].isWhite = ps[p].isWhite
                 THEN << <<captureX, captureY>> >>
                 ELSE << >>
        ELSE << >>

\* PawnCapture without the occupancy test: the pawn steps onto an empty
\* diagonal.
PawnCaptureOntoEmpty(captureX, p, b, ps) ==
    LET captureY == ps[p].position[2] + PawnDirection(ps[p].isWhite)
    IN  IF InBounds(captureX, captureY)
        THEN LET targetPiece == getAtPosition(b, captureX, captureY)
             IN  IF targetPiece = NoPiece
                    \/ ps[targetPiece].isWhite # ps[p].isWhite
                 THEN << <<captureX, captureY>> >>
                 ELSE << >>
        ELSE << >>

PawnCapture(captureX, p, b, ps) ==
    LET captureY == ps[p].position[2] + PawnDirection(ps[p].isWhite)
    IN  IF InBounds(captureX, captureY)
        THEN LET targetPiece == getAtPosition(b, captureX, captureY)
             IN  IF targetPiece # NoPiece
                    /\ ps[targetPiece].isWhite # ps[p].isWhite
                 THEN << <<captureX, captureY>> >>
                 ELSE << >>
        ELSE << >>

PawnMoves(p, b, ps) ==
    PawnForward(p, b, ps)
    \o PawnDouble(p, b, ps)
    \o PawnCapture(ps[p].position[1] + 1, p, b, ps)
    \o PawnCapture(ps[p].position[1] - 1, p, b, ps)

\* Virtual dispatch of IGamePiece::getPotentialMoves on the dynamic type.
getPotentialMoves(p, b, ps) ==
    CASE ps[p].kind = "King"   -> KingMoves(p, b, ps)
      [] ps[p].kind = "Knight" -> KnightMoves(p, b, ps)
      [] ps[p].kind = "Pawn"   -> PawnMoves(p, b, ps)
      [] ps[p].kind = "Rook"   -> RookMoves(p, b, ps)
      [] ps[p].kind = "Bishop" -> BishopMoves(p, b, ps)
      [] ps[p].kind = "Queen"  -> QueenMoves(p, b, ps)

\* getName of the six classes: "White King", "Black Pawn", ...
getName(p, ps) == (IF ps[p].isWhite THEN "White " ELSE "Black ") \o ps[p].kind

----------------------------------------------------------------------------
(* BoardManager *)

\* renderBoard without the position update of line 120.
renderBoardNoSync(b, ps) == ps

\* renderBoard visits the grid with col (y) in the outer loop and row (x) in
\* the inner one and stores the visited cell into the piece found there:
\* "board[row][col]->position = Position(row, col)".  Visit number n, from
\* 1, is of cell (x, y) = ((n - 1) % 8, (n - 1) \div 8); after[n] is the
\* heap after the first n visits.
renderBoard(b, ps) ==
    LET after[n \in 0 .. (BoardSize * BoardSize)] ==
            IF n = 0 THEN ps
            ELSE LET x == (n - 1) % BoardSize
                     y == (n - 1) \div BoardSize
                 IN  IF b[x][y] = NoPiece
                     THEN after[n - 1]
                     ELSE [after[n - 1] EXCEPT ![b[x][y]].position = <<x, y>>]
    IN  after[BoardSize * BoardSize]

\* "for (auto &move : piece->getPotentialMoves()) if (move == target) ..."
isValidMove(p, target, b, ps) == target \in Range(getPotentialMoves(p, b, ps))

\* MovedBoard without line 149: the old cell keeps its pointer.
MovedBoardKeepsOldCell(p, target, b, ps) ==
    [b EXCEPT ![target[1]][target[2]] = p]

\* The grid after a valid move: the pointer is stored at target, then the
\* cell at the cached position of the piece is cleared.
MovedBoard(p, target, b, ps) ==
    LET oldPos == ps[p].position
        b1 == [b EXCEPT ![target[1]][target[2]] = p]
    IN  [b1 EXCEPT ![oldPos[1]][oldPos[2]] = NoPiece]

\* "delete board[target.x][target.y]": the occupant of target stops living.
\* Nothing else in a piece changes: movePiece does not touch the cached
\* position, and it never calls Pawn::movePiece(), which alone would set
\* hasMoved.
MovedPieces(p, target, b, ps) ==
    LET victim == b[target[1]][target[2]]
    IN  IF victim # NoPiece
        THEN [ps EXCEPT ![victim].live = FALSE]
        ELSE ps

\* movePiece without the early "return false": the move is made whether or
\* not the target is valid.
movePieceUnchecked(p, target, b, ps) ==
    [ok |-> isValidMove(p, target, b, ps),
     board |-> MovedBoard(p, target, b, ps),
     pieces |-> MovedPieces(p, target, b, ps)]

\* BoardManager::movePiece: the result, the grid and the heap after the call.
movePiece(p, target, b, ps) ==
    IF ~isValidMove(p, target, b, ps)
    THEN [ok |-> FALSE, board |-> b, pieces |-> ps]
    ELSE [ok |-> TRUE,
          board |-> MovedBoard(p, target, b, ps),
          pieces |-> MovedPieces(p, target, b, ps)]

BackRow == << "Rook", "Knight", "Bishop", "Queen", "King", "Bishop", "Knight", "Rook" >>

NewPiece(kind, isWhite, x, y) ==
    [kind |-> kind, isWhite |-> isWhite, position |-> <<x, y>>,
     hasMoved |-> FALSE, live |-> TRUE]

\* The objects prepareBoard allocates, in allocation order: ids 1..8 the
\* black back row, 9..16 the black pawns, 17..24 the white pawns, 25..32 the
\* white back row.
preparePieces ==
    [p \in PieceIds |->
        IF p <= 8 THEN NewPiece(BackRow[p], FALSE, p - 1, 0)
        ELSE IF p <= 16 THEN NewPiece("Pawn", FALSE, p - 9, 1)
        ELSE IF p <= 24 THEN NewPiece("Pawn", TRUE, p - 17, 6)
        ELSE NewPiece(BackRow[p - 24], TRUE, p - 25, 7)]

\* prepareBoard with the two white rows exchanged: the white pawns on rank
\* 7, the white back row on rank 6.
prepareBoardWhiteRowsSwapped ==
    [x \in Coord |-> [y \in Coord |->
        IF y = 0 THEN x + 1
        ELSE IF y = 1 THEN x + 9
        ELSE IF y = 7 THEN x + 17
        ELSE IF y = 6 THEN x + 25
        ELSE NoPiece]]

prepareBoard ==
    [x \in Coord |-> [y \in Coord |->
        IF y = 0 THEN x + 1
        ELSE IF y = 1 THEN x + 9
        ELSE IF y = 6 THEN x + 17
        ELSE IF y = 7 THEN x + 25
        ELSE NoPiece]]

----------------------------------------------------------------------------
(* main() *)

\* clamp with the upper limit one short, as in std::clamp(v, 0, 6).
clampOneShort(v, lo, hi) ==
    IF v < lo THEN lo ELSE IF v > hi - 1 THEN hi - 1 ELSE v

\* std::clamp(v, 0, 7)
clamp(v, lo, hi) == IF v < lo THEN lo ELSE IF v > hi THEN hi ELSE v

Init ==
    /\ board = prepareBoard
    /\ pieces = renderBoard(prepareBoard, preparePieces)
    /\ cursor = <<0, 0>>
    /\ selectedPiece = NoPiece
    /\ moves = << >>
    /\ status = ""
    /\ moveCount = [p \in PieceIds |-> 0]
    /\ nKeys = 0

\* "char c = std::cin.get()": one more key is read.
ReadKey ==
    /\ nKeys < MaxKeys
    /\ nKeys' = nKeys + 1

\* An arrow key: the cursor moves by (dx, dy), clamped; then the render pass.
MoveCursor(dx, dy) ==
    /\ ReadKey
    /\ cursor' = <<clamp(cursor[1] + dx, 0, 7), clamp(cursor[2] + dy, 0, 7)>>
    /\ status' = IF selectedPiece # NoPiece
                 THEN getName(selectedPiece, pieces) \o " selected"
                 ELSE ""
    /\ pieces' = renderBoard(board, pieces)
    /\ UNCHANGED <<board, selectedPiece, moves, moveCount>>

CursorUp == MoveCursor(0, -1)

CursorDown == MoveCursor(0, 1)

CursorRight == MoveCursor(1, 0)

CursorLeft == MoveCursor(-1, 0)

\* ActivateSelected with lines 653-654 inside the "if": a refused move
\* keeps the selection and the candidates.
ActivateSelectedKeepsOnRefusal ==
    /\ nKeys < MaxKeys
    /\ nKeys' = nKeys + 1
    /\ selectedPiece # NoPiece
    /\ LET r == movePiece(selectedPiece, cursor, board, pieces)
       IN  /\ board' = r.board
           /\ pieces' = renderBoard(r.board, r.pieces)
           /\ status' = IF r.ok
                        THEN "Moved " \o getName(selectedPiece, r.pieces)
                        ELSE "Deselected"
           /\ moveCount' = IF r.ok
                           THEN [moveCount EXCEPT ![selectedPiece] = @ + 1]
                           ELSE moveCount
           /\ selectedPiece' = IF r.ok THEN NoPiece ELSE selectedPiece
           /\ moves' = IF r.ok THEN << >> ELSE moves
    /\ UNCHANGED cursor

\* ActivateSelected without lines 653-654: the selection and the candidates
\* survive the move.
ActivateSelectedNeverClears ==
    /\ nKeys < MaxKeys
    /\ nKeys' = nKeys + 1
    /\ selectedPiece # NoPiece
    /\ LET r == movePiece(selectedPiece, cursor, board, pieces)
       IN  /\ board' = r.board
           /\ pieces' = renderBoard(r.board, r.pieces)
           /\ status' = IF r.ok
                        THEN "Moved " \o getName(selectedPiece, r.pieces)
                        ELSE "Deselected"
           /\ moveCount' = IF r.ok
                           THEN [moveCount EXCEPT ![selectedPiece] = @ + 1]
                           ELSE moveCount
    /\ UNCHANGED <<cursor, selectedPiece, moves>>

\* Space with a piece selected: attempt the move, deselect either way.
ActivateSelected ==
    /\ ReadKey
    /\ selectedPiece # NoPiece
    /\ LET r == movePiece(selectedPiece, cursor, board, pieces)
       IN  /\ board' = r.board
           /\ pieces' = renderBoard(r.board, r.pieces)
           /\ status' = IF r.ok
                        THEN "Moved " \o getName(selectedPiece, r.pieces)
                        ELSE "Deselected"
           /\ moveCount' = IF r.ok
                           THEN [moveCount EXCEPT ![selectedPiece] = @ + 1]
                           ELSE moveCount
    /\ selectedPiece' = NoPiece
    /\ moves' = << >>
    /\ UNCHANGED cursor

\* ActivateIdle without line 660: the candidates are not recomputed.
ActivateIdleStaleMoves ==
    /\ nKeys < MaxKeys
    /\ nKeys' = nKeys + 1
    /\ selectedPiece = NoPiece
    /\ IF getAtPosition(board, cursor[1], cursor[2]) = NoPiece
       THEN /\ status' = "Empty space selected"
            /\ UNCHANGED <<selectedPiece, moves>>
       ELSE /\ selectedPiece' = getAtPosition(board, cursor[1], cursor[2])
            /\ moves' = moves
            /\ status' = getName(selectedPiece', pieces) \o " selected"
    /\ pieces' = renderBoard(board, pieces)
    /\ UNCHANGED <<board, cursor, moveCount>>

\* Space with nothing selected: select the piece under the cursor, if any.
ActivateIdle ==
    /\ ReadKey
    /\ selectedPiece = NoPiece
    /\ IF getAtPosition(board, cursor[1], cursor[2]) = NoPiece
       THEN /\ status' = "Empty space selected"
            /\ UNCHANGED <<selectedPiece, moves>>
       ELSE /\ selectedPiece' = getAtPosition(board, cursor[1], cursor[2])
            /\ moves' = getPotentialMoves(selectedPiece', board, pieces)
            /\ status' = getName(selectedPiece', pieces) \o " selected"
    /\ pieces' = renderBoard(board, pieces)
    /\ UNCHANGED <<board, cursor, moveCount>>

Next ==
    \/ CursorUp
    \/ CursorDown
    \/ CursorRight
    \/ CursorLeft
    \/ ActivateSelected
    \/ ActivateIdle

Spec == Init /\ [][Next]_vars

----------------------------------------------------------------------------
(* Two-piece positions.                                                    *)
(*                                                                         *)
(* Neither side has to move in turn and a king can be captured like any    *)
(* other piece, so play from the standard setup can leave any two pieces   *)
(* alone on the board.  PosSpec starts from such positions, with one key   *)
(* of the budget left, and reads that key: either the cursor is on the     *)
(* mover and nothing is selected, or the mover is selected and the cursor  *)
(* is on the other piece.                                                  *)

\* One piece of every kind and colour (both bishops of each colour).
MoverIds == {1, 2, 3, 4, 5, 6, 9, 17, 25, 26, 27, 28, 29, 30}

\* The other piece: the second knight of either colour.
OtherIds == {7, 31}

\* Squares a piece can come to stand on: a pawn never moves backwards and
\* is never on the rank behind the one it started on; a bishop keeps the
\* colour of its square.
CanStandOn(p, sq) ==
    LET start == preparePieces[p]
    IN  CASE start.kind = "Pawn" ->
                 IF start.isWhite THEN sq[2] <= start.position[2]
                                  ELSE sq[2] >= start.position[2]
          [] start.kind = "Bishop" ->
                 (sq[1] + sq[2]) % 2 = (start.position[1] + start.position[2]) % 2
          [] OTHER -> TRUE

Abs(v) == IF v < 0 THEN -v ELSE v

Dist(a, b) ==
    IF Abs(a[1] - b[1]) > Abs(a[2] - b[2]) THEN Abs(a[1] - b[1]) ELSE Abs(a[2] - b[2])

SparseBoard(m, msq, o, osq) ==
    [x \in Coord |-> [y \in Coord |->
        IF <<x, y>> = msq THEN m
        ELSE IF <<x, y>> = osq THEN o
        ELSE NoPiece]]

SparsePieces(m, msq, o, osq) ==
    [p \in PieceIds |->
        IF p = m THEN [preparePieces[p] EXCEPT !.position = msq]
        ELSE IF p = o THEN [preparePieces[p] EXCEPT !.position = osq]
        ELSE [preparePieces[p] EXCEPT !.live = FALSE]]

PosInit ==
    \E m \in MoverIds, o \in OtherIds, msq \in Squares, osq \in Squares :
        /\ msq # osq
        /\ CanStandOn(m, msq)
        /\ Dist(msq, osq) <= MaxDist
        /\ board = SparseBoard(m, msq, o, osq)
        /\ pieces = SparsePieces(m, msq, o, osq)
        /\ \/ /\ cursor = msq
              /\ selectedPiece = NoPiece
              /\ moves = << >>
              /\ status = ""
           \/ /\ cursor = osq
              /\ selectedPiece = m
              /\ moves = getPotentialMoves(m, board, pieces)
              /\ status = getName(m, pieces) \o " selected"
        /\ moveCount = [p \in PieceIds |-> 0]
        /\ nKeys = MaxKeys - 1

PosNext ==
    \/ ActivateSelected
    \/ ActivateIdle

PosSpec == PosInit /\ [][PosNext]_vars

----------------------------------------------------------------------------
(* Properties *)

PieceAt(sq) == board[sq[1]][sq[2]]

LivePieces == { p \in PieceIds : pieces[p].live }

\* The move set of p on the current board, as a set.
MoveSet(p) == Range(getPotentialMoves(p, board, pieces))

\* The cell that really holds p (the cells, should there be several).
CellsHolding(p) == { sq \in Squares : PieceAt(sq) = p }

IsAlly(p, sq) == PieceAt(sq) # NoPiece /\ pieces[PieceAt(sq)].isWhite = pieces[p].isWhite

IsEnemy(p, sq) == PieceAt(sq) # NoPiece /\ pieces[PieceAt(sq)].isWhite # pieces[p].isWhite

\* What a snapshot of the board shows: per cell, nothing or a colour and kind.
Occupancy(b, ps) ==
    [sq \in Squares |->
        IF b[sq[1]][sq[2]] = NoPiece THEN << >>
        ELSE <<ps[b[sq[1]][sq[2]]].isWhite, ps[b[sq[1]][sq[2]]].kind>>]

\* A step that is Space pressed while a piece is selected.
ActivateSelectedStep == selectedPiece # NoPiece /\ nKeys' = nKeys + 1 /\ cursor' = cursor
                        /\ status' # getName(selectedPiece, pieces) \o " selected"

\* C1: every coordinate in the move set of every piece on the board lies
\* within [0,7]x[0,7] and is not occupied by a piece of the mover's colour.
C1_MovesOnBoardNotAlly ==
    \A p \in LivePieces :
        LET ms == MoveSet(p)
        IN  \A sq \in ms :
                /\ sq[1] \in 0 .. 7
                /\ sq[2] \in 0 .. 7
                /\ ~IsAlly(p, sq)

\* C1 witness: a selected piece whose candidates include an edge square and
\* a square held by an enemy piece.
C1_Witness ==
    /\ selectedPiece # NoPiece
    /\ moves = getPotentialMoves(selectedPiece, board, pieces)
    /\ \E sq \in Range(moves) : IsEnemy(selectedPiece, sq)
    /\ \E sq \in Range(moves) : sq[1] = 0

\* C2: a movePiece call whose target is outside the generated move set
\* fails (no move is counted, the status is "Deselected") and leaves the
\* occupancy of all 64 cells, the grid and the pieces as they were.
C2_FailedMoveLeavesBoard ==
    [][(ActivateSelectedStep /\ cursor \notin MoveSet(selectedPiece))
        => /\ status' = "Deselected"
           /\ moveCount' = moveCount
           /\ board' = board
           /\ Occupancy(board', pieces') = Occupancy(board, pieces)
           /\ \A p \in PieceIds : pieces'[p].live = pieces[p].live]_vars

\* C2 witness: a move has just been refused with the cursor on a square
\* held by another piece, after an earlier move had succeeded.
C2_Witness ==
    /\ status = "Deselected"
    /\ PieceAt(cursor) # NoPiece
    /\ \E p \in PieceIds : moveCount[p] > 0

\* C3: when movePiece succeeds, a piece that stood on the target was of the
\* opposite colour and is removed, the cell the mover came from is empty,
\* the target holds the mover, the mover's cached coordinate is the target
\* and every other cell is unchanged.
C3_SuccessfulMove ==
    [][(ActivateSelectedStep /\ status' # "Deselected")
        => LET p == selectedPiece
               target == cursor
               victim == PieceAt(target)
           IN  /\ victim # NoPiece =>
                     /\ pieces[victim].isWhite # pieces[p].isWhite
                     /\ ~pieces'[victim].live
                     /\ \A sq \in Squares : board'[sq[1]][sq[2]] # victim
               /\ \A sq \in CellsHolding(p) : board'[sq[1]][sq[2]] = NoPiece
               /\ board'[target[1]][target[2]] = p
               /\ pieces'[p].position = target
               /\ pieces'[p].live
               /\ \A sq \in Squares \ (CellsHolding(p) \cup {target}) :
                     board'[sq[1]][sq[2]] = board[sq[1]][sq[2]]
               /\ \A q \in PieceIds \ {p, victim} : pieces'[q] = pieces[q]]_vars

\* C3 witness: a move has just succeeded and captured: the mover stands
\* under the cursor and fewer than 32 pieces live.
C3_Witness ==
    /\ PieceAt(cursor) # NoPiece
    /\ status = "Moved " \o getName(PieceAt(cursor), pieces)
    /\ moveCount[PieceAt(cursor)] > 0
    /\ \E q \in PieceIds : ~pieces[q].live

\* C4: after every command each live piece's cached coordinate is the cell
\* that holds it, no two live pieces report the same coordinate, every live
\* piece is in exactly one cell and no cell refers to a captured piece.
C4_CoordinatesInSync ==
    /\ \A p \in LivePieces : CellsHolding(p) = {pieces[p].position}
    /\ \A p, q \in LivePieces : p # q => pieces[p].position # pieces[q].position
    /\ \A sq \in Squares : PieceAt(sq) # NoPiece => pieces[PieceAt(sq)].live

\* C4 witness: a piece that has moved twice and captured stands where its
\* cached coordinate says.
C4_Witness ==
    /\ \E q \in PieceIds : ~pieces[q].live
    /\ \E p \in LivePieces :
          /\ moveCount[p] >= 2
          /\ PieceAt(pieces[p].position) = p
          /\ pieces[p].position # preparePieces[p].position

\* The square k steps from the cached position of p in direction d.
Along(p, d, k) == <<pieces[p].position[1] + k * d[1], pieces[p].position[2] + k * d[2]>>

OrthogonalDirs == { d \in (-1 .. 1) \X (-1 .. 1) : Abs(d[1]) + Abs(d[2]) = 1 }

DiagonalDirs == { d \in (-1 .. 1) \X (-1 .. 1) : Abs(d[1]) + Abs(d[2]) = 2 }

DirsOfKind(kind) ==
    CASE kind = "Rook" -> OrthogonalDirs
      [] kind = "Bishop" -> DiagonalDirs
      [] kind = "Queen" -> OrthogonalDirs \cup DiagonalDirs

Sliders == { p \in LivePieces : pieces[p].kind \in {"Rook", "Bishop", "Queen"} }

\* C5: for a rook, bishop or queen and each direction of its kind, a square
\* of the ray is in the move set exactly when every square before it is
\* empty and it is itself empty or held by an enemy piece; the move set
\* holds nothing that is not on one of these rays.
C5_SlidingRays ==
    \A p \in Sliders :
        LET ms == MoveSet(p)
            dirs == DirsOfKind(pieces[p].kind)
        IN  /\ \A d \in dirs : \A k \in 1 .. 7 :
                  Along(p, d, k) \in Squares =>
                     (Along(p, d, k) \in ms
                        <=> /\ \A j \in 1 .. (k - 1) : PieceAt(Along(p, d, j)) = NoPiece
                            /\ ~IsAlly(p, Along(p, d, k)))
            /\ \A sq \in ms : \E d \in dirs, k \in 1 .. 7 : sq = Along(p, d, k)

\* C5 witness: Space has selected a slider, the first piece on one of its
\* rays is an enemy two or more steps away with the board going on behind
\* it, and the candidates stop on that piece.
C5_Witness ==
    /\ nKeys = MaxKeys
    /\ selectedPiece \in Sliders
    /\ \E d \in DirsOfKind(pieces[selectedPiece].kind), k \in 2 .. 6 :
          /\ Along(selectedPiece, d, k + 1) \in Squares
          /\ IsEnemy(selectedPiece, Along(selectedPiece, d, k))
          /\ Along(selectedPiece, d, k) \in Range(moves)
          /\ Along(selectedPiece, d, k - 1) \in Range(moves)
          /\ Along(selectedPiece, d, k + 1) \notin Range(moves)

KingOffsets == { d \in (-1 .. 1) \X (-1 .. 1) : d # <<0, 0>> }

KnightOffsets == { d \in (-2 .. 2) \X (-2 .. 2) : Abs(d[1]) * Abs(d[2]) = 2 }

OffsetsOfKind(kind) == IF kind = "King" THEN KingOffsets ELSE KnightOffsets

Steppers == { p \in LivePieces : pieces[p].kind \in {"King", "Knight"} }

\* C6: the move set of a king or knight is exactly its offset table applied
\* to its position, restricted to squares on the board that hold no allied
\* piece (enemy squares are included), and no square is listed twice.
C6_SteppingTable ==
    \A p \in Steppers :
        LET generated == getPotentialMoves(p, board, pieces)
        IN  /\ Range(generated)
                 = { sq \in { Along(p, d, 1) : d \in OffsetsOfKind(pieces[p].kind) } :
                        sq \in Squares /\ ~IsAlly(p, sq) }
            /\ Len(generated) = Cardinality(Range(generated))

\* C6 witness: Space has selected a king or knight near the edge with an
\* enemy on one of its squares, which is among the candidates.
C6_Witness ==
    /\ nKeys = MaxKeys
    /\ selectedPiece \in Steppers
    /\ \E d \in OffsetsOfKind(pieces[selectedPiece].kind) :
          Along(selectedPiece, d, 1) \notin Squares
    /\ \E sq \in Range(moves) : IsEnemy(selectedPiece, sq)

Pawns == { p \in LivePieces : pieces[p].kind = "Pawn" }

\* White pawns advance toward rank 0, black pawns toward rank 7.
Forward(p) == IF pieces[p].isWhite THEN <<0, -1>> ELSE <<0, 1>>

\* C7 as claimed: an unmoved pawn with the two squares ahead empty is
\* offered both advances, and a pawn that has made a successful move is
\* never offered the two-square advance again.
C7_DoubleStepOnlyOnce ==
    \A p \in Pawns :
        LET ms == MoveSet(p)
        IN  /\ (moveCount[p] = 0
                 /\ Along(p, Forward(p), 2) \in Squares
                 /\ PieceAt(Along(p, Forward(p), 1)) = NoPiece
                 /\ PieceAt(Along(p, Forward(p), 2)) = NoPiece)
                => {Along(p, Forward(p), 1), Along(p, Forward(p), 2)} \subseteq ms
            /\ moveCount[p] >= 1 => Along(p, Forward(p), 2) \notin ms

\* C8 as claimed: the square two ahead of a pawn is in its move set only if
\* the square one ahead and the square two ahead are both empty.
C8_NoJump ==
    \A p \in Pawns :
        Along(p, Forward(p), 2) \in MoveSet(p)
            => /\ PieceAt(Along(p, Forward(p), 1)) = NoPiece
               /\ PieceAt(Along(p, Forward(p), 2)) = NoPiece

\* C9: the move set of a pawn holds the square straight ahead exactly when
\* it is on the board and empty, and each forward diagonal exactly when it
\* is on the board and held by an enemy piece.
C9_PawnStepAndCaptures ==
    \A p \in Pawns :
        LET ahead == Along(p, Forward(p), 1)
            ms == MoveSet(p)
        IN  /\ ahead \in ms <=> (ahead \in Squares /\ PieceAt(ahead) = NoPiece)
            /\ \A dx \in {-1, 1} :
                  LET diag == <<ahead[1] + dx, ahead[2]>>
                  IN  diag \in ms <=> (diag \in Squares /\ IsEnemy(p, diag))

\* C9 witness: Space has selected a pawn with an enemy on one forward
\* diagonal and the other diagonal and the square ahead empty; the
\* candidates hold the capture and the advance, not the empty diagonal.
C9_Witness ==
    /\ nKeys = MaxKeys
    /\ selectedPiece \in Pawns
    /\ LET ahead == Along(selectedPiece, Forward(selectedPiece), 1)
       IN  /\ ahead[1] \in 1 .. 6
           /\ ahead \in Range(moves)
           /\ \E dx \in {-1, 1} :
                 /\ IsEnemy(selectedPiece, <<ahead[1] + dx, ahead[2]>>)
                 /\ <<ahead[1] + dx, ahead[2]>> \in Range(moves)
                 /\ PieceAt(<<ahead[1] - dx, ahead[2]>>) = NoPiece
                 /\ <<ahead[1] - dx, ahead[2]>> \notin Range(moves)

\* C10: Space with a piece selected ends with nothing selected and no
\* candidates; when the cursor is not a candidate the occupancy is
\* unchanged, and when it is the selected piece stands on the cursor square.
C10_ActivateSelected ==
    [][ActivateSelectedStep
        => /\ selectedPiece' = NoPiece
           /\ moves' = << >>
           /\ cursor \notin Range(moves) =>
                 /\ board' = board
                 /\ Occupancy(board', pieces') = Occupancy(board, pieces)
           /\ cursor \in Range(moves) =>
                 /\ { sq \in Squares : board'[sq[1]][sq[2]] = selectedPiece } = {cursor}
                 /\ pieces'[selectedPiece].position = cursor
                 /\ pieces'[selectedPiece].live]_vars

\* C10 witness: Space has just moved the selected piece onto the cursor
\* square, and nothing is selected.
C10_Witness ==
    /\ selectedPiece = NoPiece
    /\ moves = << >>
    /\ PieceAt(cursor) # NoPiece
    /\ status = "Moved " \o getName(PieceAt(cursor), pieces)
    /\ pieces[PieceAt(cursor)].position # preparePieces[PieceAt(cursor)].position

\* A step that is Space pressed while nothing is selected: an arrow key
\* pressed then leaves the status empty.
ActivateIdleStep == selectedPiece = NoPiece /\ nKeys' = nKeys + 1 /\ status' # ""

\* C11: Space with nothing selected leaves the board unchanged; on an empty
\* cell nothing is selected and the candidates stay empty; on a piece, of
\* either colour, that piece is selected and the candidates are the move
\* generator's output for it on the current board.
C11_ActivateIdle ==
    [][ActivateIdleStep
        => /\ board' = board
           /\ Occupancy(board', pieces') = Occupancy(board, pieces)
           /\ cursor' = cursor
           /\ PieceAt(cursor) = NoPiece =>
                 /\ selectedPiece' = NoPiece
                 /\ moves' = << >>
           /\ PieceAt(cursor) # NoPiece =>
                 /\ selectedPiece' = PieceAt(cursor)
                 /\ moves' = getPotentialMoves(PieceAt(cursor), board, pieces)]_vars

\* C11 witness: a white piece is selected and has candidates right after
\* another white piece has moved (no turn is enforced).
C11_Witness ==
    /\ selectedPiece # NoPiece
    /\ pieces[selectedPiece].isWhite
    /\ cursor = pieces[selectedPiece].position
    /\ moves # << >>
    /\ status = getName(selectedPiece, pieces) \o " selected"
    /\ \A p \in PieceIds : moveCount[p] > 0 => pieces[p].isWhite /\ p # selectedPiece
    /\ \E p \in PieceIds : moveCount[p] > 0

\* A step that is an arrow key: Space never leaves the status it has after
\* an arrow key.
CursorStep ==
    /\ nKeys' = nKeys + 1
    /\ status' = IF selectedPiece # NoPiece
                 THEN getName(selectedPiece, pieces) \o " selected"
                 ELSE ""

\* The square one step from sq in direction d, or sq when that is off the
\* board.
StepOrStay(sq, d) ==
    IF <<sq[1] + d[1], sq[2] + d[2]>> \in Squares
    THEN <<sq[1] + d[1], sq[2] + d[2]>>
    ELSE sq

\* C12: an arrow key moves the cursor one square in its direction (up is
\* toward rank 0, left toward file 0), or leaves it where it is when the
\* step would leave the board; the cursor stays within [0,7]x[0,7]; the
\* selected piece, the candidates and the board are unchanged, whether or
\* not a piece is selected.
C12_MoveCursor ==
    [][/\ CursorUp => cursor' = StepOrStay(cursor, <<0, -1>>)
       /\ CursorDown => cursor' = StepOrStay(cursor, <<0, 1>>)
       /\ CursorRight => cursor' = StepOrStay(cursor, <<1, 0>>)
       /\ CursorLeft => cursor' = StepOrStay(cursor, <<-1, 0>>)
       /\ cursor' \in Squares
       /\ CursorStep =>
             /\ \E d \in OrthogonalDirs : cursor' = StepOrStay(cursor, d)
             /\ selectedPiece' = selectedPiece
             /\ moves' = moves
             /\ board' = board
             /\ Occupancy(board', pieces') = Occupancy(board, pieces)
             /\ moveCount' = moveCount]_vars

\* C12 witness: with a piece selected the cursor has been taken from the
\* piece to the far corner of the board.
C12_Witness ==
    /\ selectedPiece # NoPiece
    /\ status = getName(selectedPiece, pieces) \o " selected"
    /\ cursor = <<7, 0>>
    /\ pieces[selectedPiece].position[1] < 6
    /\ moves = getPotentialMoves(selectedPiece, board, pieces)

StandardSetup(b, ps) ==
    \A sq \in Squares :
        LET p == b[sq[1]][sq[2]]
        IN  CASE sq[2] \in {0, 7} ->
                     /\ p # NoPiece
                     /\ ps[p].kind = BackRow[sq[1] + 1]
                     /\ ps[p].isWhite = (sq[2] = 7)
                     /\ ps[p].position = sq
              [] sq[2] \in {1, 6} ->
                     /\ p # NoPiece
                     /\ ps[p].kind = "Pawn"
                     /\ ps[p].isWhite = (sq[2] = 6)
                     /\ ps[p].position = sq
              [] OTHER -> p = NoPiece

NoMoveYet == \A p \in PieceIds : moveCount[p] = 0

\* C13: before any move the board is the standard setup; the piece then
\* selected on (1,7) is a white knight whose candidates contain (2,5) and
\* (0,5) and not (1,5); and when the first move of the run has just been
\* made by the piece from (1,7) with the cursor on (2,5), that knight is on
\* (2,5), (1,7) is empty and every other cell is as in the setup.
C13_KnightEndToEnd ==
    LET knight == prepareBoard[1][7]
    IN  /\ NoMoveYet => StandardSetup(board, pieces)
        /\ (NoMoveYet /\ selectedPiece # NoPiece /\ selectedPiece = PieceAt(<<1, 7>>)) =>
              /\ pieces[selectedPiece].kind = "Knight"
              /\ pieces[selectedPiece].isWhite
              /\ <<2, 5>> \in Range(moves)
              /\ <<0, 5>> \in Range(moves)
              /\ <<1, 5>> \notin Range(moves)
        /\ (/\ \A p \in PieceIds : moveCount[p] = IF p = knight THEN 1 ELSE 0
            /\ cursor = <<2, 5>>
            /\ status # ""
            /\ status # "Deselected"
            /\ status # "Empty space selected"
            /\ selectedPiece = NoPiece) =>
              /\ PieceAt(<<2, 5>>) = knight
              /\ pieces[knight].kind = "Knight"
              /\ pieces[knight].position = <<2, 5>>
              /\ PieceAt(<<1, 7>>) = NoPiece
              /\ \A sq \in Squares \ {<<2, 5>>, <<1, 7>>} :
                    PieceAt(sq) = prepareBoard[sq[1]][sq[2]]

\* C13 witness: the knight from (1,7) has just been moved to (2,5) as the
\* first move of the run.
C13_Witness ==
    /\ status = "Moved White Knight"
    /\ cursor = <<2, 5>>
    /\ PieceAt(<<2, 5>>) = prepareBoard[1][7]
    /\ PieceAt(<<1, 7>>) = NoPiece
    /\ \A p \in PieceIds : moveCount[p] = IF p = prepareBoard[1][7] THEN 1 ELSE 0

\* C14: while a piece is selected it is alive and on the board and the
\* stored candidates are what the generator returns for it on the current
\* board; so Space on a candidate square always moves the piece.
C14_CandidatesCurrent ==
    /\ [](selectedPiece # NoPiece =>
            /\ pieces[selectedPiece].live
            /\ PieceAt(pieces[selectedPiece].position) = selectedPiece
            /\ moves = getPotentialMoves(selectedPiece, board, pieces))
    /\ [][(ActivateSelectedStep /\ cursor \in Range(moves))
            => /\ status' = "Moved " \o getName(selectedPiece, pieces)
               /\ moveCount'[selectedPiece] = moveCount[selectedPiece] + 1
               /\ board'[cursor[1]][cursor[2]] = selectedPiece]_vars

\* C14 witness: a piece that has moved before is selected again, a capture
\* has taken place, and the cursor stands on one of its candidates.
C14_Witness ==
    /\ selectedPiece # NoPiece
    /\ moveCount[selectedPiece] > 0
    /\ \E q \in PieceIds : ~pieces[q].live
    /\ cursor \in Range(moves)

====
